---- MODULE Spec2Model ----
(***************************************************************************)
(* Cart and checkout resolvers of chapter-8/pages/api/index.ts.            *)
(*                                                                         *)
(* The file holds two generations of the API: the schema-first resolver    *)
(* map of lines 18-101 (Query.cart, Mutation.addItem, the Cart and         *)
(* CartItem field resolvers) and the code-first builder API of lines       *)
(* 173-469.  Both are modelled.                                            *)
(*                                                                         *)
(* The persistent state is the two tables the Prisma client is used on:    *)
(* Cart (primary key id) and CartItem (unique on (id, cartId)).            *)
(*                                                                         *)
(* Spec runs the requests one at a time, each resolver as one step.        *)
(* SpecConc runs the code-first resolvers of two clients statement by      *)
(* statement, so that the lookup and the write of one Prisma call can be   *)
(* separated by the statements of another request.                         *)
(***************************************************************************)
EXTENDS Integers, FiniteSets, Sequences, TLC

VARIABLES carts,      \* ids of the persisted Cart records
          items,      \* the persisted CartItem rows
          response,   \* the outcome of the last request that completed
          reqs        \* requests in flight, statement by statement

vars == <<carts, items, response, reqs>>

(* ------------------------------ bounds -------------------------------- *)

MaxUnits == 2       \* the rows hold at most MaxUnits units in total
MaxRows == 2        \* at most MaxRows CartItem rows are stored

NULL == "null"

\* const currencyCode = 'USD'
currencyCode == "USD"

\* Cart ids and item ids are both GraphQL IDs (strings): one id space.
Ids == {"x", "y"}

\* The catalogue attributes an addItem input may carry.
Catalog ==
  { [name |-> "Mug", description |-> NULL, image |-> NULL, price |-> 5],
    [name |-> "Cup", description |-> "tea cup", image |-> "cup.png", price |-> 3] }

\* quantity: t.int({ defaultValue: 1 }) is nullable: <<>> is null, <<n>> is n
Quantities == {<<>>, <<-1>>, <<0>>, <<1>>}

AddToCartInput ==
  { [cartId |-> c, id |-> i, name |-> p.name, description |-> p.description,
     image |-> p.image, price |-> p.price, quantity |-> q] :
       c \in Ids, i \in Ids, p \in Catalog, q \in Quantities }

ItemRefInput == [cartId : Ids, id : Ids]

RemoveFromCartInput == ItemRefInput
IncreaseCartItemInput == ItemRefInput
DecreaseCartItemInput == ItemRefInput
CreateCheckoutSessionInput == [cartId : Ids]

\* the store is kept within the bounds: no quantity below the least input,
\* at most MaxUnits units and MaxRows rows
LeastInput ==
  LET given == {n[1] : n \in Quantities \ {<<>>}}
  IN CHOOSE m \in given : \A k \in given : m <= k

\* the units held: one per row and unit of its quantity
Units(its) ==
  Cardinality(UNION { {<<it.cartId, it.id, k>> : k \in 1 .. it.quantity} : it \in its })

InBounds(its) ==
  /\ Cardinality(its) <= MaxRows
  /\ \A it \in its : LeastInput <= it.quantity
  /\ Units(its) <= MaxUnits

(* ------------------------- the store (Prisma) ------------------------- *)

Row(cartId, item) ==
  [id |-> item.id, cartId |-> cartId, name |-> item.name,
   description |-> item.description, image |-> item.image,
   price |-> item.price, quantity |-> item.quantity]

\* cart.items of cart cartId
ItemsOf(its, cartId) == {it \in its : it.cartId = cartId}

\* where: { id_cartId: { id, cartId } }
ById_cartId(its, id, cartId) == {it \in its : it.id = id /\ it.cartId = cartId}

\* quantity: { increment: n } on the rows in sel
Increment(its, sel, n) ==
  (its \ sel) \cup {[it EXCEPT !.quantity = it.quantity + n] : it \in sel}

\* input.quantity ?? 1
NullishOr1(q) == IF q = <<>> THEN 1 ELSE q[1]

\* input.quantity || 1
FalsyOr1(q) == IF q = <<>> \/ q = <<0>> THEN 1 ELSE q[1]

NoSession == [id |-> NULL, url |-> NULL]

\* what stripe.checkout.sessions.create may return: url is string | null
Sessions == { [id |-> "cs_1", url |-> "https://checkout/cs_1"],
              [id |-> "cs_2", url |-> NULL] }

\* What the caller of a request gets back, with what the store reported:
\* the request's cartId and id, the id of the Cart returned, the number of
\* rows the write matched and whether it inserted a row; amount is the value
\* of a computed Cart field.
Response(op, input, outcome, returned, count) ==
  [op |-> op, cartId |-> input.cartId,
   id |-> IF "id" \in DOMAIN input THEN input.id ELSE NULL,
   outcome |-> outcome, cart |-> returned, count |-> count, created |-> FALSE,
   line_items |-> <<>>, session |-> NoSession, amount |-> 0]

NoResponse == Response(NULL, [cartId |-> NULL], NULL, NULL, 0)

Init ==
  /\ carts = {}
  /\ items = {}
  /\ response = NoResponse
  /\ reqs = <<>>

(* ---------------------- code-first API, 173-469 ----------------------- *)

\* const item = {...}
ItemOf(input) ==
  [id |-> input.id, name |-> input.name, description |-> input.description,
   image |-> input.image, price |-> input.price,
   quantity |-> NullishOr1(input.quantity)]

\* prisma.cart.upsert({ where: {id: input.cartId}, create: {...}, update: {...} })
\* cartFound / itemFound are what the upsert's lookups saw.
CartUpsertItems(its, input, cartFound, itemFound) ==
  LET new == Row(input.cartId, ItemOf(input))
      sel == ById_cartId(its, input.id, input.cartId)
  IN IF cartFound /\ itemFound
       THEN Increment(its, sel, NullishOr1(input.quantity))
       ELSE its \cup {new}

\* creates that no unique constraint stops
CartUpsertConflict_Unconstrained(cs, its, input, cartFound, itemFound) == FALSE

\* the unique constraints the create branches run into
CartUpsertConflict(cs, its, input, cartFound, itemFound) ==
  \/ ~cartFound /\ input.cartId \in cs
  \/ ~(cartFound /\ itemFound) /\ ById_cartId(its, input.id, input.cartId) # {}

addItem(input) ==
  LET cartFound == input.cartId \in carts
      itemFound == ById_cartId(items, input.id, input.cartId) # {}
      its == CartUpsertItems(items, input, cartFound, itemFound)
  IN /\ InBounds(its)
     /\ carts' = carts \cup {input.cartId}
     /\ items' = its
     /\ response' = [Response("addItem", input, "ok", input.cartId, 1)
                        EXCEPT !.created = ~(cartFound /\ itemFound)]
     /\ UNCHANGED reqs

\* prisma.cart.update({ where: { id: input.id }, data: { items: { deleteMany: { id: input.id } } } })
RemoveSelection(its, input) == {it \in ItemsOf(its, input.id) : it.id = input.id}

removeItem(input) ==
  IF input.id \notin carts
    THEN /\ response' = Response("removeItem", input, "RecordNotFound", NULL, 0)
         /\ UNCHANGED <<carts, items, reqs>>
    ELSE LET sel == RemoveSelection(items, input)
         IN /\ items' = items \ sel
            /\ response' = Response("removeItem", input, "ok", input.id, Cardinality(sel))
            /\ UNCHANGED <<carts, reqs>>

\* updateMany: { where: { id: input.id }, data: { quantity: { increment: 1 } } } of cart input.id
IncreaseSelection(its, input) == {it \in ItemsOf(its, input.id) : it.id = input.id}

increaseCartItem(input) ==
  IF input.id \notin carts
    THEN /\ response' = Response("increaseCartItem", input, "RecordNotFound", NULL, 0)
         /\ UNCHANGED <<carts, items, reqs>>
    ELSE LET sel == IncreaseSelection(items, input)
             its == Increment(items, sel, 1)
         IN /\ InBounds(its)
            /\ items' = its
            /\ response' = Response("increaseCartItem", input, "ok", input.id, Cardinality(sel))
            /\ UNCHANGED <<carts, reqs>>

\* updateMany: { where: { id: input.id, quantity: { gte: 1 } }, data: { quantity: { decrement: 1 } } }
DecreaseSelection(its, input) ==
  {it \in ItemsOf(its, input.id) : it.id = input.id /\ it.quantity >= 1}

decreaseCartItem(input) ==
  IF input.id \notin carts
    THEN /\ response' = Response("decreaseCartItem", input, "RecordNotFound", NULL, 0)
         /\ UNCHANGED <<carts, items, reqs>>
    ELSE LET sel == DecreaseSelection(items, input)
         IN /\ items' = Increment(items, sel, -1)
            /\ response' = Response("decreaseCartItem", input, "ok", input.id, Cardinality(sel))
            /\ UNCHANGED <<carts, reqs>>

(* ------------------------ createCheckoutSession ------------------------ *)

\* prisma.cart.findUnique({ where: { id: cartId }, include: { items: true } })
\* <<>> is null, <<its>> is the cart with its items
FindCartWithItems(cs, its, cartId) ==
  IF cartId \in cs THEN <<ItemsOf(its, cartId)>> ELSE <<>>

\* lines priced with the line total instead of the unit price
LineItems_LineTotal(cartItems) ==
  [i \in {it.id : it \in cartItems} |->
     LET item == CHOOSE it \in cartItems : it.id = i
     IN [quantity |-> item.quantity,
         currency |-> currencyCode,
         unit_amount |-> item.price * item.quantity,
         name |-> item.name,
         description |-> item.description,
         images |-> IF item.image # NULL THEN <<item.image>> ELSE <<>>]]

\* cart.items.map((item) => ({ quantity, price_data: {...} })), keyed by item id
LineItems(cartItems) ==
  [i \in {it.id : it \in cartItems} |->
     LET item == CHOOSE it \in cartItems : it.id = i
     IN [quantity |-> item.quantity,
         currency |-> currencyCode,
         unit_amount |-> item.price,
         name |-> item.name,
         description |-> item.description,
         images |-> IF item.image # NULL THEN <<item.image>> ELSE <<>>]]

\* the validations without the emptiness test of line 434
CheckoutError_NoEmptyTest(found) ==
  IF found = <<>> THEN "Invalid cart" ELSE "none"

\* the two validations of lines 430-436 on the loaded cart
CheckoutError(found) ==
  IF found = <<>> THEN "Invalid cart"
  ELSE IF found[1] = {} THEN "Cart is empty"
  ELSE "none"

\* a checkout that loads its cart by find-or-create
createCheckoutSession_FindOrCreate(input) ==
  LET found == FindCartWithItems(carts \cup {input.cartId}, items, input.cartId)
      err == CheckoutError(found)
  IN /\ IF err # "none"
          THEN response' = Response("createCheckoutSession", input, err, NULL, 0)
          ELSE \/ \E s \in Sessions :
                    response' = [Response("createCheckoutSession", input, "ok",
                                          input.cartId, 1)
                                   EXCEPT !.line_items = LineItems(found[1]),
                                          !.session = s]
               \/ response' = [Response("createCheckoutSession", input,
                                        "GatewayError", input.cartId, 1)
                                 EXCEPT !.line_items = LineItems(found[1])]
     /\ carts' = carts \cup {input.cartId}
     /\ UNCHANGED <<items, reqs>>

createCheckoutSession(input) ==
  LET found == FindCartWithItems(carts, items, input.cartId)
      err == CheckoutError(found)
  IN /\ IF err # "none"
          THEN response' = Response("createCheckoutSession", input, err, NULL, 0)
          ELSE \/ \E s \in Sessions :
                    response' = [Response("createCheckoutSession", input, "ok",
                                          input.cartId, 1)
                                   EXCEPT !.line_items = LineItems(found[1]),
                                          !.session = s]
               \/ response' = [Response("createCheckoutSession", input,
                                        "GatewayError", input.cartId, 1)
                                 EXCEPT !.line_items = LineItems(found[1])]
     /\ UNCHANGED <<carts, items, reqs>>

(* ------------------------------ Query.cart ----------------------------- *)

\* prisma.cart.upsert({ where: { id }, update: {}, create: { id } })
cart(id) ==
  /\ carts' = carts \cup {id}
  /\ response' = Response("cart", [cartId |-> id], "ok", id, 0)
  /\ UNCHANGED <<items, reqs>>

(* --------------------- schema-first API, 18-101 ------------------------ *)

\* lib/cart findOrCreateCart(id): the set of carts afterwards
findOrCreateCart(cs, id) == cs \cup {id}

Query_cart(id) ==
  /\ carts' = findOrCreateCart(carts, id)
  /\ response' = Response("Query.cart", [cartId |-> id], "ok", id, 0)
  /\ UNCHANGED <<items, reqs>>

\* prisma.cartItem.upsert({ create: {...}, where: { id_cartId }, update: {...} })
CartItemUpsert(its, input, itemFound) ==
  LET sel == ById_cartId(its, input.id, input.cartId)
  IN IF itemFound
       THEN Increment(its, sel, FalsyOr1(input.quantity))
       ELSE its \cup {Row(input.cartId,
                          [ItemOf(input) EXCEPT !.quantity = FalsyOr1(input.quantity)])}

Mutation_addItem(input) ==
  LET itemFound == ById_cartId(items, input.id, input.cartId) # {}
      its == CartItemUpsert(items, input, itemFound)
  IN /\ InBounds(its)
     /\ items' = its
     /\ carts' = findOrCreateCart(carts, input.cartId)
     /\ response' = [Response("Mutation.addItem", input, "ok", input.cartId, 1)
                        EXCEPT !.created = ~itemFound]
     /\ UNCHANGED reqs

(* ------------------------ computed Cart fields ------------------------- *)

\* The arrays a cart's items can arrive as: every row once, in any order
\* (the queries give no orderBy).
Arrays(its) ==
  {arr \in [1 .. Cardinality(its) -> its] : \A it \in its : \E i \in DOMAIN arr : arr[i] = it}

\* items.reduce((acc, item) => acc + item.price * item.quantity, acc)
RECURSIVE reduce_subTotal(_, _)
reduce_subTotal(arr, acc) ==
  IF arr = <<>>
    THEN acc
    ELSE reduce_subTotal(Tail(arr), acc + Head(arr).price * Head(arr).quantity)

\* only the first item is priced
ReduceSubTotal_FirstItemOnly(arr) ==
  IF arr = <<>> THEN 0 ELSE Head(arr).price * Head(arr).quantity

\* items.reduce(..., 0) ?? 0: the sum is a number, never null or undefined
ReduceSubTotal(arr) == reduce_subTotal(arr, 0)

\* items.reduce((total, item) => total + item.quantity || 1, total):
\* `+` binds tighter than `||`, so each step is (total + item.quantity) || 1
RECURSIVE reduce_totalItems(_, _)
reduce_totalItems(arr, total) ==
  IF arr = <<>>
    THEN total
    ELSE LET sum == total + Head(arr).quantity
         IN reduce_totalItems(Tail(arr), IF sum = 0 THEN 1 ELSE sum)

ReduceTotalItems(arr) == reduce_totalItems(arr, 0)

Computed(op, id, value) ==
  [Response(op, [cartId |-> id], "ok", id, 0) EXCEPT !.amount = value]

\* code-first Cart.subTotal, 217-225, on the items selected with the cart
subTotal(id) ==
  /\ id \in carts
  /\ \E arr \in Arrays(ItemsOf(items, id)) :
       response' = Computed("subTotal", id, ReduceSubTotal(arr))
  /\ UNCHANGED <<carts, items, reqs>>

\* code-first Cart.totalItems, 209-215
totalItems(id) ==
  /\ id \in carts
  /\ \E arr \in Arrays(ItemsOf(items, id)) :
       response' = Computed("totalItems", id, ReduceTotalItems(arr))
  /\ UNCHANGED <<carts, items, reqs>>

\* schema-first Cart.subTotal, 64-78, on the items of findUnique({ where: { id } })
Cart_subTotal(id) ==
  /\ id \in carts
  /\ \E arr \in Arrays(ItemsOf(items, id)) :
       response' = Computed("Cart.subTotal", id, ReduceSubTotal(arr))
  /\ UNCHANGED <<carts, items, reqs>>

\* schema-first Cart.totalItems, 56-63
Cart_totalItems(id) ==
  /\ id \in carts
  /\ \E arr \in Arrays(ItemsOf(items, id)) :
       response' = Computed("Cart.totalItems", id, ReduceTotalItems(arr))
  /\ UNCHANGED <<carts, items, reqs>>

Next ==
  \/ \E id \in Ids : cart(id)
  \/ \E id \in Ids : subTotal(id)
  \/ \E id \in Ids : totalItems(id)
  \/ \E id \in Ids : Cart_subTotal(id)
  \/ \E id \in Ids : Cart_totalItems(id)
  \/ \E id \in Ids : Query_cart(id)
  \/ \E input \in AddToCartInput : Mutation_addItem(input)
  \/ \E input \in CreateCheckoutSessionInput : createCheckoutSession(input)
  \/ \E input \in AddToCartInput : addItem(input)
  \/ \E input \in RemoveFromCartInput : removeItem(input)
  \/ \E input \in IncreaseCartItemInput : increaseCartItem(input)
  \/ \E input \in DecreaseCartItemInput : decreaseCartItem(input)

Spec == Init /\ [][Next]_vars

(* ------------- the code-first API, statement by statement -------------- *)
(* Each resolver awaits one Prisma call; the client runs that call as its  *)
(* lookup followed by its write, and the gateway call of the checkout is   *)
(* a further await.  Requests of other clients run in between.             *)

Clients == {"c1", "c2"}

\* the inputs concurrent clients send
ConcAddToCartInput ==
  {input \in AddToCartInput : input.name = "Mug" /\ input.quantity = <<1>>}

Idle ==
  [op |-> NULL, input |-> [cartId |-> NULL], pc |-> "idle",
   cartFound |-> FALSE, itemFound |-> FALSE, read |-> {}, calls |-> 0,
   outcome |-> NULL, cart |-> NULL, line_items |-> <<>>, session |-> NoSession]

Pending(op, input, pc) == [Idle EXCEPT !.op = op, !.input = input, !.pc = pc]

Done(req, outcome, returned) ==
  [Pending(req.op, req.input, "done") EXCEPT !.outcome = outcome, !.cart = returned]

InitConc ==
  /\ carts = {}
  /\ items = {}
  /\ response = NoResponse
  /\ reqs = [r \in Clients |-> Idle]

\* addItem, 275-297: the upsert looks up the cart and the item ...
addItem_lookup(r, input) ==
  /\ reqs[r].pc = "idle"
  /\ reqs' = [reqs EXCEPT ![r] =
       [Pending("addItem", input, "write") EXCEPT
          !.cartFound = input.cartId \in carts,
          !.itemFound = ById_cartId(items, input.id, input.cartId) # {}]]
  /\ UNCHANGED <<carts, items, response>>

\* ... and then creates or increments, under the tables' unique constraints
addItem_write(r) ==
  LET req == reqs[r]
      its == CartUpsertItems(items, req.input, req.cartFound, req.itemFound)
  IN /\ req.pc = "write" /\ req.op = "addItem"
     /\ IF CartUpsertConflict(carts, items, req.input, req.cartFound, req.itemFound)
          THEN /\ reqs' = [reqs EXCEPT ![r] = Done(req, "UniqueConstraint", NULL)]
               /\ UNCHANGED <<carts, items>>
          ELSE IF /\ req.cartFound /\ req.itemFound
                  /\ ById_cartId(items, req.input.id, req.input.cartId) = {}
          THEN /\ reqs' = [reqs EXCEPT ![r] = Done(req, "RecordNotFound", NULL)]
               /\ UNCHANGED <<carts, items>>
          ELSE /\ InBounds(its)
               /\ carts' = carts \cup {req.input.cartId}
               /\ items' = its
               /\ reqs' = [reqs EXCEPT ![r] = Done(req, "ok", req.input.cartId)]
     /\ UNCHANGED response

\* removeItem / increaseCartItem / decreaseCartItem: cart.update finds the
\* cart of where: { id: input.id } ...
CartUpdateOps == {"removeItem", "increaseCartItem", "decreaseCartItem"}

cartUpdate_lookup(r, op, input) ==
  /\ reqs[r].pc = "idle"
  /\ reqs' = [reqs EXCEPT ![r] =
       IF input.id \in carts
         THEN Pending(op, input, "write")
         ELSE Done(Pending(op, input, "write"), "RecordNotFound", NULL)]
  /\ UNCHANGED <<carts, items, response>>

\* ... and runs the nested deleteMany / updateMany as one statement
NestedWrite(op, its, input) ==
  CASE op = "removeItem" -> its \ RemoveSelection(its, input)
    [] op = "increaseCartItem" -> Increment(its, IncreaseSelection(its, input), 1)
    [] op = "decreaseCartItem" -> Increment(its, DecreaseSelection(its, input), -1)

cartUpdate_write(r) ==
  LET req == reqs[r]
      its == NestedWrite(req.op, items, req.input)
  IN /\ req.pc = "write" /\ req.op \in CartUpdateOps
     /\ InBounds(its)
     /\ items' = its
     /\ reqs' = [reqs EXCEPT ![r] = Done(req, "ok", req.input.id)]
     /\ UNCHANGED <<carts, response>>

\* createCheckoutSession, 423-436: load the cart and validate it ...
checkout_read(r, input) ==
  LET found == FindCartWithItems(carts, items, input.cartId)
      err == CheckoutError(found)
      req == Pending("createCheckoutSession", input, "gateway")
  IN /\ reqs[r].pc = "idle"
     /\ reqs' = [reqs EXCEPT ![r] =
          IF err # "none" THEN Done(req, err, NULL)
          ELSE [req EXCEPT !.read = found[1]]]
     /\ UNCHANGED <<carts, items, response>>

\* the gateway call, retried when it fails
checkout_gateway_Retry(r) ==
  LET req == reqs[r]
      sent == [Done(req, "ok", req.input.cartId)
                 EXCEPT !.line_items = LineItems(req.read),
                        !.calls = req.calls + 1]
  IN /\ req.pc = "gateway"
     /\ \/ \E s \in Sessions :
             reqs' = [reqs EXCEPT ![r] = [sent EXCEPT !.session = s]]
        \/ reqs' = [reqs EXCEPT ![r] = [req EXCEPT !.calls = req.calls + 1]]
     /\ UNCHANGED <<carts, items, response>>

\* ... 438-466: map the items read and await the gateway; calls counts the
\* calls of stripe.checkout.sessions.create the request has made
checkout_gateway(r) ==
  LET req == reqs[r]
      sent == [Done(req, "GatewayError", req.input.cartId)
                 EXCEPT !.line_items = LineItems(req.read),
                        !.calls = req.calls + 1]
  IN /\ req.pc = "gateway"
     /\ \/ \E s \in Sessions :
             reqs' = [reqs EXCEPT ![r] =
                        [sent EXCEPT !.outcome = "ok", !.session = s]]
        \/ reqs' = [reqs EXCEPT ![r] = sent]
     /\ UNCHANGED <<carts, items, response>>

\* cart query, 180-188: the upsert looks the cart up ...
cart_lookup(r, id) ==
  /\ reqs[r].pc = "idle"
  /\ reqs' = [reqs EXCEPT ![r] =
       [Pending("cart", [cartId |-> id], "write") EXCEPT !.cartFound = id \in carts]]
  /\ UNCHANGED <<carts, items, response>>

\* ... and creates it when it saw none (update: {} changes nothing)
cart_write(r) ==
  LET req == reqs[r]
  IN /\ req.pc = "write" /\ req.op = "cart"
     /\ IF ~req.cartFound /\ req.input.cartId \in carts
          THEN /\ reqs' = [reqs EXCEPT ![r] = Done(req, "UniqueConstraint", NULL)]
               /\ UNCHANGED carts
          ELSE /\ carts' = carts \cup {req.input.cartId}
               /\ reqs' = [reqs EXCEPT ![r] = Done(req, "ok", req.input.cartId)]
     /\ UNCHANGED <<items, response>>

\* the response goes out; the client may send its next request
Return(r) ==
  /\ reqs[r].pc = "done"
  /\ reqs' = [reqs EXCEPT ![r] = Idle]
  /\ UNCHANGED <<carts, items, response>>

NextConc ==
  \/ \E r \in Clients, input \in ConcAddToCartInput : addItem_lookup(r, input)
  \/ \E r \in Clients : addItem_write(r)
  \/ \E r \in Clients, op \in CartUpdateOps, input \in ItemRefInput :
       cartUpdate_lookup(r, op, input)
  \/ \E r \in Clients : cartUpdate_write(r)
  \/ \E r \in Clients, input \in CreateCheckoutSessionInput : checkout_read(r, input)
  \/ \E r \in Clients : checkout_gateway(r)
  \/ \E r \in Clients, id \in Ids : cart_lookup(r, id)
  \/ \E r \in Clients : cart_write(r)
  \/ \E r \in Clients : Return(r)

SpecConc == InitConc /\ [][NextConc]_vars

(* ------------------------------ the claims ----------------------------- *)

AddOps == {"addItem", "Mutation.addItem"}
QuantityOps == {"increaseCartItem", "decreaseCartItem"}

\* the request that completes in this step
Completes(op, input) ==
  response'.op = op /\ response'.cartId = input.cartId /\ response'.id = input.id

\* the quantity a call asks for: the input's, 1 (the field's default) if null
RequestedQuantity(q) == IF q = <<>> THEN 1 ELSE q[1]

\* C1: an addItem call that finds no row for (cartId, itemId) stores its name
\* and price with its quantity, and a call that finds the row leaves name and
\* price as stored and adds its quantity; either way one row exists for the
\* pair.  Hence two calls for one pair, the first creating the row, leave the
\* first call's name and price and the sum of the two quantities.
C1_AddTwiceKeepsFirstSumsQuantity ==
  [][ \A input \in AddToCartInput :
        ( addItem(input) \/ Mutation_addItem(input) )
        => LET before == ById_cartId(items, input.id, input.cartId)
               after == ById_cartId(items', input.id, input.cartId)
               asked == RequestedQuantity(input.quantity)
           IN IF before = {}
                THEN after = { Row(input.cartId, [ItemOf(input) EXCEPT !.quantity = asked]) }
                ELSE after = { [first EXCEPT !.quantity = first.quantity + asked] :
                                 first \in before } ]_vars

\* the change a request asks for on the quantity q of the row it addresses
Delta(op, input, q) ==
  CASE op = "addItem" -> RequestedQuantity(input.quantity)
    [] op = "increaseCartItem" -> 1
    [] op = "decreaseCartItem" -> IF q >= 1 THEN -1 ELSE 0

\* C2: whenever an addItem / increaseCartItem / decreaseCartItem for
\* (cartId, itemId) completes successfully, whatever the other client did
\* since the request started, the row of (itemId, cartId) moves by the
\* request's delta from the quantity it holds at that moment: no update is
\* lost, and the final quantity is the initial one plus all the deltas.
C2_NoLostUpdate ==
  [][ \A r \in Clients :
        ( /\ reqs[r].pc = "write" /\ reqs'[r].pc = "done"
          /\ reqs'[r].outcome = "ok"
          /\ reqs[r].op \in {"addItem", "increaseCartItem", "decreaseCartItem"} )
        => \A it \in ById_cartId(items, reqs[r].input.id, reqs[r].input.cartId) :
             ById_cartId(items', reqs[r].input.id, reqs[r].input.cartId) =
               { [it EXCEPT !.quantity =
                    it.quantity + Delta(reqs[r].op, reqs[r].input, it.quantity)] } ]_vars

\* C3: every persisted CartItem has quantity >= 0.
C3_QuantityNeverNegative == \A it \in items : it.quantity >= 0

\* C4: decreaseCartItem(cartId, itemId) on an existing item takes a quantity
\* q >= 1 to q - 1, leaves a quantity 0 at 0, and keeps the row.
C4_DecreaseFloorsAtZero ==
  [][ \A input \in DecreaseCartItemInput :
        ( Completes("decreaseCartItem", input) )
        => \A it \in ById_cartId(items, input.id, input.cartId) :
             LET after == ById_cartId(items', input.id, input.cartId)
             IN /\ Cardinality(after) = 1
                /\ \A a \in after :
                     a.quantity = IF it.quantity >= 1 THEN it.quantity - 1
                                  ELSE it.quantity
                /\ it.quantity >= 0 => \A a \in after : a.quantity >= 0 ]_vars

\* C5: increaseCartItem(cartId, itemId) adds exactly 1 to the quantity of the
\* item with key (itemId, cartId) and changes no other item of that cart.
C5_IncreaseAddsOneToAddressedItem ==
  [][ \A input \in IncreaseCartItemInput :
        ( Completes("increaseCartItem", input) )
        => ItemsOf(items', input.cartId) =
             ItemsOf(Increment(items,
                               ById_cartId(items, input.id, input.cartId), 1),
                     input.cartId) ]_vars

\* C6: removeItem(cartId, itemId) leaves cart cartId without item itemId and
\* with its other items as they were; with no such item it changes nothing
\* and is not an error.
C6_RemoveDeletesAddressedItem ==
  [][ \A input \in RemoveFromCartInput :
        ( Completes("removeItem", input) )
        => /\ ItemsOf(items', input.cartId) =
                ItemsOf(items, input.cartId)
                  \ ById_cartId(items, input.id, input.cartId)
           /\ ById_cartId(items, input.id, input.cartId) = {}
                => /\ items' = items /\ carts' = carts
                   /\ response'.outcome = "ok" ]_vars

\* C7: a mutation addressed to cart c leaves the items of every other cart
\* as they were.
C7_OtherCartsUntouched ==
  [][ ( response'.op \in AddOps \cup QuantityOps \cup {"removeItem"} )
      => \A c \in Ids \ {response'.cartId} :
           ItemsOf(items', c) = ItemsOf(items, c) ]_vars

\* C8: increaseCartItem / decreaseCartItem on a (cartId, itemId) pair without
\* a row leave the whole store as it was.
C8_AbsentRowLeavesStoreUnchanged ==
  [][ ( /\ response'.op \in QuantityOps
        /\ ById_cartId(items, response'.id, response'.cartId) = {} )
      => items' = items /\ carts' = carts ]_vars

\* C9: removeItem, increaseCartItem and decreaseCartItem never end in an
\* error: on an absent cart or item they succeed as no-ops.
C9_NoNotFoundError ==
  response.op \in QuantityOps \cup {"removeItem"} => response.outcome = "ok"

\* C10: createCheckoutSession ends in "Invalid cart" when the cart does not
\* exist, in "Cart is empty" when it exists without items, and hands out a
\* session only for an existing cart with at least one item.
C10_CheckoutValidation ==
  response.op = "createCheckoutSession" =>
    LET cartId == response.cartId
    IN /\ cartId \notin carts => response.outcome = "Invalid cart"
       /\ (cartId \in carts /\ ItemsOf(items, cartId) = {})
            => response.outcome = "Cart is empty"
       /\ response.outcome = "Invalid cart" => cartId \notin carts
       /\ response.outcome = "Cart is empty"
            => cartId \in carts /\ ItemsOf(items, cartId) = {}
       /\ response.session # NoSession
            => /\ cartId \in carts /\ ItemsOf(items, cartId) # {}
               /\ response.outcome = "ok"
               /\ response.session.id # NULL
       /\ response.outcome = "ok" => response.session \in Sessions

C10_Witness_SessionForFilledCart ==
  /\ response.op = "createCheckoutSession"
  /\ response.outcome = "ok"
  /\ response.session \in Sessions
  /\ ItemsOf(items, response.cartId) # {}

\* C11: the gateway is called only by a checkout that has loaded its cart and
\* passed both validations (the cart exists, the items read are not empty),
\* and a checkout request calls it at most once.
C11_GatewayOnlyAfterValidation ==
  \A r \in Clients :
    LET req == reqs[r]
    IN /\ req.calls <= 1
       /\ req.pc = "gateway"
            => /\ req.op = "createCheckoutSession"
               /\ req.calls = 0
               /\ req.input.cartId \in carts
               /\ req.read # {}
       /\ req.calls > 0
            => /\ req.op = "createCheckoutSession"
               /\ req.pc = "done"
               /\ req.outcome \in {"ok", "GatewayError"}
               /\ req.input.cartId \in carts
               /\ DOMAIN req.line_items # {}
       /\ req.outcome \in {"Invalid cart", "Cart is empty"} => req.calls = 0

C11_Witness_FailedCallNotRetried ==
  \E r \in Clients :
    /\ reqs[r].op = "createCheckoutSession"
    /\ reqs[r].pc = "done"
    /\ reqs[r].outcome = "GatewayError"
    /\ reqs[r].calls = 1

\* C12: an addItem call for a pair (itemId, cartId) that has no row, whether
\* or not the Cart record exists, succeeds; afterwards the cart exists, the
\* other rows are as before, and the pair has exactly one row, with the
\* call's name and price and the call's quantity (1 when none is given).
C12_AddCreatesCartAndOneRow ==
  [][ \A input \in AddToCartInput :
        ( /\ addItem(input) \/ Mutation_addItem(input)
          /\ ById_cartId(items, input.id, input.cartId) = {} )
        => /\ response'.outcome = "ok"
           /\ response'.created
           /\ carts' = carts \cup {input.cartId}
           /\ \E new \in items' \ items :
                /\ items' = items \cup {new}
                /\ new.id = input.id /\ new.cartId = input.cartId
                /\ new.name = input.name /\ new.price = input.price
                /\ new.quantity = RequestedQuantity(input.quantity) ]_vars

\* C13: no step removes a Cart, and every cart query succeeds: when it
\* completes the cart of the requested id exists and is the one returned, no
\* item row has changed, and a cart it had to create holds no items.
C13_GetCartAlwaysSucceeds ==
  [][ /\ carts \subseteq carts'
      /\ \A r \in Clients :
           ( reqs[r].op = "cart" /\ reqs[r].pc = "write" /\ reqs'[r].pc = "done" )
           => LET id == reqs[r].input.cartId
              IN /\ reqs'[r].outcome = "ok"
                 /\ reqs'[r].cart = id
                 /\ carts' = carts \cup {id}
                 /\ items' = items
                 /\ id \notin carts => ItemsOf(items', id) = {} ]_vars

Mutations ==
  {"addItem", "Mutation.addItem", "removeItem", "increaseCartItem", "decreaseCartItem"}

\* C14: the Cart a successful mutation returns is the one named by the
\* request's cartId (its items are resolved from the record the write
\* statement returns, hence after the write).
C14_MutationReturnsRequestedCart ==
  ( response.op \in Mutations /\ response.outcome = "ok" )
    => /\ response.cart = response.cartId
       /\ response.cart \in carts

\* C15: in every reachable state, whatever the interleaving of the clients'
\* requests, no two item rows share both id and cartId.
C15_OneRowPerIdAndCart ==
  \A a, b \in items : (a.id = b.id /\ a.cartId = b.cartId) => a = b

\* Two addItem calls for one new pair have raced (the later create was
\* refused), and one item id is held by two carts with different quantities.
C15_Witness_RaceAndSameIdInTwoCarts ==
  /\ \E r \in Clients :
       /\ reqs[r].op = "addItem" /\ reqs[r].pc = "done"
       /\ reqs[r].outcome = "UniqueConstraint"
       /\ Cardinality(ById_cartId(items, reqs[r].input.id, reqs[r].input.cartId)) = 1
  /\ \E a, b \in items :
       a.id = b.id /\ a.cartId # b.cartId /\ a.quantity # b.quantity

\* the sum of price * quantity over the rows its, counted unit by unit
Amount(its) ==
  Cardinality(UNION { {<<it.id, k, u>> : k \in 1 .. it.quantity, u \in 1 .. it.price} :
                        it \in its })
  - Cardinality(UNION { {<<it.id, k, u>> : k \in 1 .. (0 - it.quantity), u \in 1 .. it.price} :
                          it \in its })

\* C16: the amount a subTotal resolver returns for a cart is the sum of
\* price * quantity over the cart's items: 0 for a cart without items, and
\* nothing for an item of quantity 0.
C16_SubTotalIsSumOfPriceTimesQuantity ==
  response.op \in {"subTotal", "Cart.subTotal"}
    => /\ response.amount = Amount(ItemsOf(items, response.cartId))
       /\ ItemsOf(items, response.cartId) = {} => response.amount = 0

\* a subTotal over two items, one of them of quantity 0
C16_Witness_TwoItemsOneAtZero ==
  /\ response.op \in {"subTotal", "Cart.subTotal"}
  /\ response.amount > 0
  /\ \E a, b \in ItemsOf(items, response.cartId) :
       a.quantity = 0 /\ b.quantity > 0 /\ response.amount = b.price * b.quantity

\* the count the cart its should show: every row counts for its quantity,
\* a row of quantity 0 for 1
CountedItems(its) ==
  Cardinality(UNION { {<<it.id, k>> : k \in 1 .. (IF it.quantity < 1 THEN 1 ELSE it.quantity)} :
                        it \in its })

\* C17: for a cart whose quantities are all non-negative, a totalItems
\* resolver returns the sum over the items of max(quantity, 1), whatever
\* the number of items and whichever of them are at zero.
C17_TotalItemsSumsMaxQuantityOne ==
  ( /\ response.op \in {"totalItems", "Cart.totalItems"}
    /\ \A it \in ItemsOf(items, response.cartId) : it.quantity >= 0 )
    => response.amount = CountedItems(ItemsOf(items, response.cartId))

\* C18: the items a checkout works on are the rows its cart holds at the
\* step of the read; they stay as read until the gateway call, and the list
\* sent has exactly one line per row read, with the row's quantity and, as
\* unit_amount, the row's price, whatever the other client does in between.
C18_LineItemsAreSnapshotOfRead ==
  [][ \A r \in Clients :
        /\ ( reqs[r].pc = "idle" /\ reqs'[r].pc = "gateway" )
             => reqs'[r].read = ItemsOf(items, reqs'[r].input.cartId)
        /\ ( reqs[r].pc = "gateway" /\ reqs'[r].pc = "gateway" )
             => reqs'[r].read = reqs[r].read
        /\ ( reqs[r].pc = "gateway" /\ reqs'[r].pc = "done" )
             => LET sent == reqs'[r].line_items
                    snapshot == reqs[r].read
                IN /\ DOMAIN sent = {it.id : it \in snapshot}
                   /\ Cardinality(DOMAIN sent) = Cardinality(snapshot)
                   /\ \A it \in snapshot :
                        /\ sent[it.id].quantity = it.quantity
                        /\ sent[it.id].unit_amount = it.price ]_vars

\* a checkout has called the gateway with a line whose item the other
\* client has meanwhile removed or changed in quantity
C18_Witness_CartChangedAfterRead ==
  \E r \in Clients :
    /\ reqs[r].op = "createCheckoutSession" /\ reqs[r].pc = "done"
    /\ reqs[r].calls = 1
    /\ \E i \in DOMAIN reqs[r].line_items :
         /\ reqs[r].line_items[i].quantity = 2
         /\ \A it \in ById_cartId(items, i, reqs[r].input.cartId) :
              it.quantity # reqs[r].line_items[i].quantity

\* C19: a createCheckoutSession call, whatever its outcome (Invalid cart,
\* Cart is empty, a gateway failure or a session), leaves the set of carts
\* and every item row as they were; a cart that did not exist still does not.
C19_CheckoutLeavesStoreUnchanged ==
  [][ response'.op = "createCheckoutSession"
        => /\ response'.outcome \in {"Invalid cart", "Cart is empty", "GatewayError", "ok"}
           /\ carts' = carts
           /\ items' = items ]_vars

\* a checkout was refused for a cart that does not exist, in a store that
\* holds other data, and the cart still does not exist
C19_Witness_InvalidCartNotCreated ==
  /\ response.op = "createCheckoutSession"
  /\ response.outcome = "Invalid cart"
  /\ response.cartId \notin carts
  /\ items # {}

====
